---- MODULE Spec2Model ----
(***************************************************************************)
(* A model of internal/database/sqlite.go of the customers service: the    *)
(* sqlite connection provider (Connect), its process-wide sync.Once gate,  *)
(* the migration run it triggers, the metrics reporter it starts, the path *)
(* resolver getSqlitePath and the error classifier SqliteUniqueViolation.  *)
(***************************************************************************)
EXTENDS Integers, Sequences, FiniteSets, TLC

\* ------------------------------------------------------------------ bounds

\* Number of Connect() invocations in one process run.
NCalls == 2

\* Longest SQLITE_DB_PATH value drawn for getSqlitePath.
MaxPathLen == 4

\* Number of ticker deliveries followed in one run.
MaxTicks == 2

\* Number of rows a test inserts.
MaxInserts == 2

\* ------------------------------------------------------------- identities

Calls == 1..NCalls

\* Provider instances (values of type *sqlite) living in the process.
Providers == {"s1", "s2", "s3", "s4"}

\* Database files a provider's path may name.
Files == {"f1", "f2"}

\* The nil *sql.DB.
NilDB == 0

\* A nil error, as a message.
NilMsg == ""

\* ------------------------------------------------------------ strings.*

\* strings.Contains on sequences of characters (or of words).
Contains(s, sub) ==
    \E i \in 0..(Len(s) - Len(sub)) : SubSeq(s, i + 1, i + Len(sub)) = sub

\* --------------------------------------------------------------- state

VARIABLES
    migrations,            \* the steps registered with the migrator, in order
    prov,                  \* provider -> [path, err]: the fields of sqlite
    version,               \* what sqlite3.Version() returns in this build
    sqliteVersionLogOnce,  \* the sync.Once: "new", "running" or "done"
    versionQueries,        \* how many times the guarded func ran
    logged,                \* provider -> version lines written to its logger
    files,                 \* file -> [hasLedger, ledger, tables]: the database
    pc,                    \* call -> position in Connect
    self,                  \* call -> its receiver s ("" before the call)
    idx,                   \* call -> index of the step Migrate is at
    openErr,               \* call -> the err variable declared at line 116
    dbState,               \* handle -> "none", "open" or "closed"
    ret,                   \* call -> [db, err] returned by Connect
    gate,                  \* call -> "none", "ran" or "skipped"
    did,                   \* call -> set of I/O steps it performed
    ranStmt,               \* call -> whether it ran any step's statement
    migrated,              \* file -> whether a Migrate on it has returned nil
    startLedger,           \* call -> [seen, ledger]: the ledger its Migrate
                           \* began on, kept when the file was migrated
    reporters,             \* handles a metrics goroutine is bound to
    envPath,               \* value of SQLITE_DB_PATH
    pathOut,               \* [set, path]: what getSqlitePath returned
    errSrc,                \* [cause, table, wrapped]: where an error came from
    errIn,                 \* the error value handed to SqliteUniqueViolation
    verdict,               \* [set, val]: what SqliteUniqueViolation returned
    panicked,              \* whether SqliteUniqueViolation panicked
    hpc,                   \* position of the test using CreateTestSqliteDB
    dir,                   \* the temp dir: "none", "exists" or "removed"
    closeRet,              \* [set, err]: what TestSQLiteDB.Close returned
    rows,                  \* table -> rows held, in the test's database
    ins,                   \* [table, row, err]: the latest insert, its error
    nIns,                  \* how many inserts were made
    rpc,                   \* handle -> position of its reporter in a tick
    snap,                  \* handle -> the stats its reporter's tick read
    gauge,                 \* state label -> the value sqliteConnections holds
    nTicks,                \* how many ticks were delivered
    lastSnap               \* the stats read by the latest tick

connVars == <<migrations, prov, version, sqliteVersionLogOnce, versionQueries,
              logged, files, pc, self, idx, openErr, dbState, ret, gate, did,
              ranStmt, startLedger, migrated, reporters>>
pathVars == <<envPath, pathOut>>
errVars == <<errSrc, errIn, verdict, panicked>>
harnVars == <<hpc, dir, closeRet, rows, ins, nIns>>
repVars == <<rpc, snap, gauge, nTicks, lastSnap>>
vars == <<connVars, pathVars, errVars, harnVars, repVars>>

\* ------------------------------------------------------------- errors

NoErr == [kind |-> "nil", step |-> "", cause |-> ""]
Err(kind, step, cause) == [kind |-> kind, step |-> step, cause |-> cause]

\* ------------------------------------------------- the registered steps

\* The names passed to execsql, in the order migrator.New receives them.
sqliteMigrator ==
    << "create_customers", "create_customers_phones",
       "create_customers_addresses", "create_customer_metadata",
       "customer_status_updates", "create_customer_ofac_searches",
       "create_customer_ssn", "create_documents", "create_disclaimers",
       "create_disclaimer_acceptances", "create_outbound_emails",
       "create_email_activation_codes" >>


\* The table each registered statement creates ("create table if not exists").
TableOf(name) ==
    CASE name = "create_customers" -> "customers"
      [] name = "create_customers_phones" -> "customers_phones"
      [] name = "create_customers_addresses" -> "customers_addresses"
      [] name = "create_customer_metadata" -> "customer_metadata"
      [] name = "customer_status_updates" -> "customer_status_updates"
      [] name = "create_customer_ofac_searches" -> "customer_ofac_searches"
      [] name = "create_customer_ssn" -> "customer_ssn"
      [] name = "create_documents" -> "documents"
      [] name = "create_disclaimers" -> "disclaimers"
      [] name = "create_disclaimer_acceptances" -> "disclaimer_acceptances"
      [] name = "create_outbound_emails" -> "outbound_emails"
      [] name = "create_email_activation_codes" -> "email_activation_codes"
      [] OTHER -> name

\* Steps used to exercise the engine's ordering: A creates table T, B adds a
\* unique index on T (and so needs T), C creates an unrelated table.
OrderSteps == {"A", "B", "C"}

\* What a step's statement creates.
Creates(name) ==
    CASE name = "A" -> "T"
      [] name = "B" -> "T_idx"
      [] name = "C" -> "U"
      [] OTHER -> TableOf(name)

\* The schema objects a step's statement needs to find already present.
Requires(name) == IF name = "B" THEN {"T"} ELSE {}

\* Every registration of the ordering steps.
RECURSIVE Perms(_)
Perms(S) ==
    IF S = {} THEN {<<>>}
    ELSE UNION {{<<x>> \o p : p \in Perms(S \ {x})} : x \in S}

Orders == Perms(OrderSteps)

\* ------------------------------------------------ the migration engine

Range(q) == {q[i] : i \in 1..Len(q)}

FileOf(c) == prov[self[c]].path

\* A lookup that never finds the name (variant: the check is lost).
IsRecordedNever(f, name) == FALSE

\* Ledger lookup: is the step's name recorded as applied?
IsRecorded(f, name) == name \in Range(files[f].ledger)

\* Iterating the registration backwards (variant).
StepAtReversed(i) == migrations[Len(migrations) + 1 - i]

\* The step Migrate looks at in its i-th iteration: registration order.
StepAt(i) == migrations[i]

\* The error of running a step's statement against file f (NoErr on success).
\* fault is an engine-level failure of the statement (I/O error, disk full);
\* otherwise the statement fails only for want of an object it needs.
ExecErr(f, name, fault) ==
    IF fault THEN Err("exec", name, "fault")
    ELSE IF ~(Requires(name) \subseteq files[f].tables)
         THEN Err("exec", name, "no such table")
         ELSE NoErr

\* Number of rows of ledger q that carry name n.
RECURSIVE Rows(_, _)
Rows(q, n) ==
    IF q = <<>> THEN 0
    ELSE (IF Head(q) = n THEN 1 ELSE 0) + Rows(Tail(q), n)

\* ------------------------------------------------------------- Connect

\* A return statement of Connect.
Return(c, r) ==
    /\ pc' = [pc EXCEPT ![c] = "done"]
    /\ ret' = [ret EXCEPT ![c] = r]

\* A Connect that does not look at s.err (variant).
HasStoredErrNever(p) == FALSE

\* if s.err != nil
HasStoredErr(p) == prov[p].err # NilMsg

\* fmt.Errorf("sqlite had error %v", s.err)
StoredErrResult(p) ==
    [db |-> NilDB, err |-> Err("sqlite had error", "", prov[p].err)]

\* Connect is entered on receiver p; a stored error returns at once.
ConnectEnter(c, p) ==
    /\ pc[c] = "idle"
    /\ self' = [self EXCEPT ![c] = p]
    /\ IF HasStoredErr(p)
       THEN Return(c, StoredErrResult(p))
       ELSE /\ pc' = [pc EXCEPT ![c] = "once"]
            /\ UNCHANGED ret
    /\ UNCHANGED <<migrations, prov, version, sqliteVersionLogOnce,
                   versionQueries, logged, files, idx, openErr, dbState, gate,
                   did, ranStmt, startLedger, migrated, reporters>>
    /\ UNCHANGED <<pathVars, errVars, harnVars, repVars>>

\* A plain "not done yet" flag test in place of the Once (variant): a caller
\* arriving while the func runs would run it too.
OnceFreshRacy == sqliteVersionLogOnce # "done"

\* sync.Once.Do lets a caller run the func only while the Once is untouched;
\* it is taken under the Once's mutex, so check and claim are one step.
OnceFresh == sqliteVersionLogOnce = "new"

\* sqliteVersionLogOnce.Do: the first caller starts the func.
OnceDoFirst(c) ==
    /\ pc[c] = "once"
    /\ OnceFresh
    /\ sqliteVersionLogOnce' = "running"
    /\ pc' = [pc EXCEPT ![c] = "onceBody"]
    /\ UNCHANGED <<migrations, prov, version, versionQueries, logged, files,
                   self, idx, openErr, dbState, ret, gate, did, ranStmt,
                   startLedger, migrated, reporters>>
    /\ UNCHANGED <<pathVars, errVars, harnVars, repVars>>

\* A gate that is armed again when no version could be logged (variant).
OnceAfterRetryIfEmpty(v) == IF v = "" THEN "new" ELSE "done"

\* The Once after the func returned: done, whatever the func did.
OnceAfter(v) == "done"

\* The guarded func: read the version, log it when non-empty. Do returns, and
\* the Once is done, when the func returns.
OnceBody(c) ==
    /\ pc[c] = "onceBody"
    /\ versionQueries' = versionQueries + 1
    /\ logged' = IF version # ""
                 THEN [logged EXCEPT ![self[c]] = @ + 1]
                 ELSE logged
    /\ sqliteVersionLogOnce' = OnceAfter(version)
    /\ gate' = [gate EXCEPT ![c] = "ran"]
    /\ did' = [did EXCEPT ![c] = @ \cup {"version"}]
    /\ pc' = [pc EXCEPT ![c] = "open"]
    /\ UNCHANGED <<migrations, prov, version, files, self, idx, openErr,
                   dbState, ret, ranStmt, startLedger, migrated, reporters>>
    /\ UNCHANGED <<pathVars, errVars, harnVars, repVars>>

\* sqliteVersionLogOnce.Do when the Once is done: returns without calling the
\* func. (While another caller runs the func, Do blocks.)
OnceDoSkip(c) ==
    /\ pc[c] = "once"
    /\ sqliteVersionLogOnce = "done"
    /\ gate' = [gate EXCEPT ![c] = "skipped"]
    /\ pc' = [pc EXCEPT ![c] = "open"]
    /\ UNCHANGED <<migrations, prov, version, sqliteVersionLogOnce,
                   versionQueries, logged, files, self, idx, openErr, dbState,
                   ret, did, ranStmt, startLedger, migrated, reporters>>
    /\ UNCHANGED <<pathVars, errVars, harnVars, repVars>>

\* return db, err after a failed open (variant).
OpenFailResultWithHandle(c, e) == [db |-> c, err |-> e]

\* What Connect returns when sql.Open fails with e: return nil, err.
OpenFailResult(c, e) == [db |-> NilDB, err |-> e]

\* db, err := sql.Open("sqlite3", s.path); if err != nil { return nil, err }
SqlOpen(c) ==
    /\ pc[c] = "open"
    /\ did' = [did EXCEPT ![c] = @ \cup {"open"}]
    /\ \E ok \in BOOLEAN :
          IF ok
          THEN /\ dbState' = [dbState EXCEPT ![c] = "open"]
               /\ pc' = [pc EXCEPT ![c] = "ping"]
               /\ UNCHANGED <<ret, openErr>>
          ELSE /\ openErr' = [openErr EXCEPT ![c] = Err("open", "", "fault")]
               /\ Return(c, OpenFailResult(c, Err("open", "", "fault")))
               /\ UNCHANGED dbState
    /\ UNCHANGED <<migrations, prov, version, sqliteVersionLogOnce,
                   versionQueries, logged, files, self, idx, gate, ranStmt,
                   startLedger, migrated, reporters>>
    /\ UNCHANGED <<pathVars, errVars, harnVars, repVars>>

\* return nil, err after a failed ping (variant).
PingFailResultNoHandle(c, e) == [db |-> NilDB, err |-> e]

\* What Connect returns when db.Ping fails with e: return db, err.
PingFailResult(c, e) == [db |-> c, err |-> e]

\* if err := db.Ping(); err != nil { return db, err }
Ping(c) ==
    /\ pc[c] = "ping"
    /\ \E ok \in BOOLEAN :
          IF ok
          THEN /\ did' = [did EXCEPT ![c] = @ \cup {"ping", "ping ok"}]
               /\ pc' = [pc EXCEPT ![c] = "migrate"]
               /\ UNCHANGED ret
          ELSE /\ did' = [did EXCEPT ![c] = @ \cup {"ping"}]
               /\ Return(c, PingFailResult(c, Err("ping", "", "fault")))
    /\ UNCHANGED <<migrations, prov, version, sqliteVersionLogOnce,
                   versionQueries, logged, files, self, idx, openErr, dbState,
                   gate, ranStmt, startLedger, migrated, reporters>>
    /\ UNCHANGED <<pathVars, errVars, harnVars, repVars>>


\* Migrate starts on the handle: the ledger table is created if it is missing.
MigrateBegin(c) ==
    /\ pc[c] = "migrate"
    /\ did' = [did EXCEPT ![c] = @ \cup {"migrate"}]
    /\ files' = [files EXCEPT ![FileOf(c)].hasLedger = TRUE]
    /\ startLedger' = [startLedger EXCEPT
                          ![c] = IF migrated[FileOf(c)]
                                 THEN [seen |-> TRUE,
                                       ledger |-> files[FileOf(c)].ledger]
                                 ELSE @]
    /\ idx' = [idx EXCEPT ![c] = 1]
    /\ pc' = [pc EXCEPT ![c] = "migCheck"]
    /\ UNCHANGED <<migrations, prov, version, sqliteVersionLogOnce,
                   versionQueries, logged, self, openErr, dbState, ret, gate,
                   ranStmt, migrated, reporters>>
    /\ UNCHANGED <<pathVars, errVars, harnVars, repVars>>

\* Connect going on to the metrics goroutine whatever Migrate returned
\* (variant).
AfterMigrateIgnoringErr(c, e) ==
    /\ pc' = [pc EXCEPT ![c] = "spawn"]
    /\ UNCHANGED ret

\* Connect returning the handle without Migrate's error (variant).
AfterMigrateDroppingErr(c, e) ==
    IF e # NoErr
    THEN Return(c, [db |-> c, err |-> NoErr])
    ELSE /\ pc' = [pc EXCEPT ![c] = "spawn"]
         /\ UNCHANGED ret

\* if err := sqliteMigrator.Migrate(db); err != nil { return db, err }
\* and otherwise on to the metrics goroutine.
AfterMigrate(c, e) ==
    IF e # NoErr
    THEN Return(c, [db |-> c, err |-> e])
    ELSE /\ pc' = [pc EXCEPT ![c] = "spawn"]
         /\ UNCHANGED ret

\* One iteration's lookup: past the last step Migrate returns nil; a recorded
\* step is skipped; an unrecorded one is applied next.
MigrateCheck(c) ==
    /\ pc[c] = "migCheck"
    /\ IF idx[c] > Len(migrations)
       THEN /\ AfterMigrate(c, NoErr)
            /\ migrated' = [migrated EXCEPT ![FileOf(c)] = TRUE]
            /\ UNCHANGED idx
       ELSE IF IsRecorded(FileOf(c), StepAt(idx[c]))
            THEN /\ idx' = [idx EXCEPT ![c] = @ + 1]
                 /\ UNCHANGED <<pc, ret, migrated>>
            ELSE /\ pc' = [pc EXCEPT ![c] = "migApply"]
                 /\ UNCHANGED <<idx, ret, migrated>>
    /\ UNCHANGED <<migrations, prov, version, sqliteVersionLogOnce,
                   versionQueries, logged, files, self, openErr, dbState,
                   gate, did, ranStmt, startLedger, reporters>>
    /\ UNCHANGED <<pathVars, errVars, harnVars, repVars>>

\* A unit that keeps the statement's effect but writes no ledger row
\* (variant).
CommittedNoRow(f, name) ==
    [files[f] EXCEPT !.tables = @ \cup {Creates(name)}]

\* The file after a step's unit committed: the statement's effect and the
\* ledger row land together.
Committed(f, name) ==
    [files[f] EXCEPT !.tables = @ \cup {Creates(name)},
                     !.ledger = Append(@, name)]

\* One step's unit, run under the engine's write lock: execute the statement
\* and record the name. A failing statement, or a ledger insert the ledger
\* rejects, leaves the file as it was and ends Migrate (and Connect) with the
\* error. The ledger uses the name as a row's identity, so it rejects a name
\* it already holds.
MigrateApply(c) ==
    /\ pc[c] = "migApply"
    /\ ranStmt' = [ranStmt EXCEPT ![c] = TRUE]
    /\ \E fault \in BOOLEAN :
          LET f == FileOf(c)
              name == StepAt(idx[c])
              e == ExecErr(f, name, fault)
          IN  IF e # NoErr
              THEN /\ AfterMigrate(c, e)
                   /\ UNCHANGED <<files, idx>>
              ELSE IF IsRecorded(f, name)
                   THEN /\ AfterMigrate(c, Err("ledger", name, "duplicate"))
                        /\ UNCHANGED <<files, idx>>
                   ELSE /\ files' = [files EXCEPT ![f] = Committed(f, name)]
                        /\ idx' = [idx EXCEPT ![c] = @ + 1]
                        /\ pc' = [pc EXCEPT ![c] = "migCheck"]
                        /\ UNCHANGED ret
    /\ UNCHANGED <<migrations, prov, version, sqliteVersionLogOnce,
                   versionQueries, logged, self, openErr, dbState, gate, did,
                   startLedger, migrated, reporters>>
    /\ UNCHANGED <<pathVars, errVars, harnVars, repVars>>

\* go func() { ... }() and return db, err: the reporter is started and Connect
\* returns the handle with the err of line 116.
StartReporter(c) ==
    /\ pc[c] = "spawn"
    /\ reporters' = reporters \cup {c}
    /\ Return(c, [db |-> c, err |-> openErr[c]])
    /\ UNCHANGED <<migrations, prov, version, sqliteVersionLogOnce,
                   versionQueries, logged, files, self, idx, openErr, dbState,
                   gate, did, ranStmt, startLedger, migrated>>
    /\ UNCHANGED <<pathVars, errVars, harnVars, repVars>>

\* ------------------------------------------------------------- behaviours

\* The labels of the sqliteConnections gauge.
Labels == {"idle", "inuse", "open"}

\* No stats read: the value of a gauge child nothing has Set.
NoSnap == <<0, 0, "none">>

\* The tables of the registration that declare a unique pair of columns
\* without "on conflict abort" spelled out.
PairTables == {"customer_metadata", "disclaimer_acceptances"}

\* A nil error value.
NilError == [typ |-> "nil", code |-> "", msg |-> <<>>]

\* The SQL NULL.
Null == "<NULL>"

\* Values bound to a column of a unique pair, and to any other column.
PairVals == {Null, "a", "b"}
OtherVals == {"x", "y"}

\* The places, among a table's first three columns, of its unique pair:
\* customer_metadata(customer_id, meta_key, meta_value, unique(meta_key,
\* meta_value)) and disclaimer_acceptances(disclaimer_id, customer_id,
\* accepted_at, unique(disclaimer_id, customer_id) ...).
UniqueCols(t) == IF t = "customer_metadata" THEN {2, 3} ELSE {1, 2}

\* What the table's unique constraint does with a conflicting row: the
\* default (abort the statement with an error) unless the declaration says
\* "on conflict ignore".
OnConflict(t) == IF t = "disclaimer_acceptances" THEN "ignore" ELSE "abort"

\* The rows an insert into t may carry.
TableRows(t) ==
    {r \in [1..3 -> PairVals \cup OtherVals] :
        \A i \in 1..3 : IF i \in UniqueCols(t) THEN r[i] \in PairVals
                                                 ELSE r[i] \in OtherVals}

\* A table with no rows: row -> number of copies held.
NoRows(t) == [r \in TableRows(t) |-> 0]

\* No test has called CreateTestSqliteDB.
HarnIdle ==
    /\ hpc = "start"
    /\ dir = "none"
    /\ closeRet = [set |-> FALSE, err |-> NoErr]
    /\ rows = [t \in PairTables |-> NoRows(t)]
    /\ ins = [table |-> "", row |-> <<>>, err |-> NilError]
    /\ nIns = 0

\* No reporter has ticked: every ticker waits and the gauge has no value.
RepIdle ==
    /\ rpc = [c \in Calls |-> "wait"]
    /\ snap = [c \in Calls |-> NoSnap]
    /\ gauge = [l \in Labels |-> NoSnap]
    /\ nTicks = 0
    /\ lastSnap = NoSnap

\* No SQLITE_DB_PATH has been resolved and no error classified.
AuxIdle ==
    /\ envPath = <<>>
    /\ pathOut = [set |-> FALSE, path |-> <<>>]
    /\ errSrc = [cause |-> "none", table |-> "", wrapped |-> FALSE]
    /\ errIn = [typ |-> "none", code |-> "", msg |-> <<>>]
    /\ verdict = [set |-> FALSE, val |-> FALSE]
    /\ panicked = FALSE
    /\ HarnIdle
    /\ RepIdle

\* sqliteConnection(logger, path) leaves err nil; s4 is a provider built
\* with a stored error. s1 and s2 name the same file.
Constructed ==
    [p \in Providers |->
       [path |-> IF p = "s3" THEN "f2" ELSE "f1",
        err |-> IF p = "s4" THEN "bad config" ELSE NilMsg]]

\* The process before any Connect: providers constructed, databases fresh.
ConnInit(registrations) ==
    /\ migrations \in registrations
    /\ prov = Constructed
    /\ version \in {"", "3.30.1"}
    /\ sqliteVersionLogOnce = "new"
    /\ versionQueries = 0
    /\ logged = [p \in Providers |-> 0]
    /\ files = [f \in Files |->
                  [hasLedger |-> FALSE, ledger |-> <<>>, tables |-> {}]]
    /\ pc = [c \in Calls |-> "idle"]
    /\ self = [c \in Calls |-> ""]
    /\ idx = [c \in Calls |-> 0]
    /\ openErr = [c \in Calls |-> NoErr]
    /\ dbState = [c \in Calls |-> "none"]
    /\ ret = [c \in Calls |-> [db |-> NilDB, err |-> NoErr]]
    /\ gate = [c \in Calls |-> "none"]
    /\ did = [c \in Calls |-> {}]
    /\ ranStmt = [c \in Calls |-> FALSE]
    /\ startLedger = [c \in Calls |-> [seen |-> FALSE, ledger |-> <<>>]]
    /\ migrated = [f \in Files |-> FALSE]
    /\ reporters = {}

Init == ConnInit({sqliteMigrator}) /\ AuxIdle

\* The steps of a Connect call that is under way.
ConnectStep(c) ==
    \/ OnceDoFirst(c)
    \/ OnceBody(c)
    \/ OnceDoSkip(c)
    \/ SqlOpen(c)
    \/ Ping(c)
    \/ MigrateBegin(c)
    \/ MigrateCheck(c)
    \/ MigrateApply(c)
    \/ StartReporter(c)

\* Connect may be called from any goroutine at any time.
Next ==
    \E c \in Calls :
        \/ \E p \in Providers : ConnectEnter(c, p)
        \/ ConnectStep(c)

Spec == Init /\ [][Next]_vars


\* Connect calls made one after another: a call starts only when no other
\* call is under way.
NextSeq ==
    \E c \in Calls :
        \/ /\ \A d \in Calls \ {c} : pc[d] \in {"idle", "done"}
           /\ \E p \in Providers : ConnectEnter(c, p)
        \/ ConnectStep(c)

\* The process making its Connect calls one after another, as a start-up
\* that is retried does.
SpecSeq == Init /\ [][NextSeq]_vars

\* --------------------------------------------------- the metrics reporter

\* A ticker whose channel ends when the handle is closed (variant).
TickerLiveWhileOpen(c) == dbState[c] = "open"

\* for range t.C: the ticker is never stopped and its channel never closed,
\* so the loop never ends.
TickerLive(c) == TRUE

\* db.Stats(): the pool statistics of handle c at this moment; a closed
\* handle still answers.
Stats(c) == <<c, nTicks + 1, dbState[c]>>

\* A tick is delivered to the reporter of handle c, which reads the stats. A
\* tick that finds the reporter busy is dropped by the ticker.
Tick(c) ==
    /\ c \in reporters
    /\ rpc[c] = "wait"
    /\ TickerLive(c)
    /\ nTicks < MaxTicks
    /\ nTicks' = nTicks + 1
    /\ snap' = [snap EXCEPT ![c] = Stats(c)]
    /\ lastSnap' = Stats(c)
    /\ rpc' = [rpc EXCEPT ![c] = "idle"]
    /\ UNCHANGED <<gauge, connVars, pathVars, errVars, harnVars>>

\* One s.connections.With("state", l).Set(...) of the tick under way.
SetGauge(c, l, then) ==
    /\ rpc[c] = l
    /\ gauge' = [gauge EXCEPT ![l] = snap[c]]
    /\ rpc' = [rpc EXCEPT ![c] = then]
    /\ UNCHANGED <<snap, nTicks, lastSnap, connVars, pathVars, errVars,
                   harnVars>>

SetIdle(c) == SetGauge(c, "idle", "inuse")

SetInuse(c) == SetGauge(c, "inuse", "open")

SetOpen(c) == SetGauge(c, "open", "wait")

\* db.Close() on handle c: the handle is closed.
Closed(c) == [dbState EXCEPT ![c] = "closed"]

\* The caller of Connect closes the handle it was returned.
CloseHandle(c) ==
    /\ pc[c] = "done"
    /\ ret[c].db = c
    /\ dbState[c] = "open"
    /\ dbState' = Closed(c)
    /\ UNCHANGED <<migrations, prov, version, sqliteVersionLogOnce,
                   versionQueries, logged, files, pc, self, idx, openErr, ret,
                   gate, did, ranStmt, startLedger, migrated, reporters>>
    /\ UNCHANGED <<pathVars, errVars, harnVars, repVars>>

\* Connect calls made one after another, their handles closed by the callers
\* at any time, the reporters ticking in the background.
NextReport ==
    \/ NextSeq
    \/ \E c \in Calls :
          \/ CloseHandle(c)
          \/ Tick(c)
          \/ SetIdle(c)
          \/ SetInuse(c)
          \/ SetOpen(c)

SpecReport == Init /\ [][NextReport]_vars

\* The engine holding a registration of the ordering steps.
InitOrder == ConnInit(Orders) /\ AuxIdle

SpecOrder == InitOrder /\ [][NextSeq]_vars

\* ------------------------------------------------------- getSqlitePath

\* The characters SQLITE_DB_PATH values are drawn from.
Chars == {".", "/", "a"}

\* Every value of SQLITE_DB_PATH up to the bound, the unset variable ("")
\* included.
PathInputs == UNION {[1..n -> Chars] : n \in 0..MaxPathLen}

\* "customers.db"
DefaultPath == <<"c", "u", "s", "t", "o", "m", "e", "r", "s", ".", "d", "b">>

\* ".."
DotDot == <<".", ".">>

\* A resolver that looks for ".." only at the start of the value (variant).
getSqlitePathPrefixOnly(path) ==
    IF path = <<>> \/ (Len(path) >= 2 /\ SubSeq(path, 1, 2) = DotDot)
    THEN DefaultPath
    ELSE path

\* getSqlitePath, applied to the value of SQLITE_DB_PATH.
getSqlitePath(path) ==
    IF path = <<>> \/ Contains(path, DotDot) THEN DefaultPath ELSE path

\* A call of getSqlitePath.
GetSqlitePath ==
    /\ ~pathOut.set
    /\ pathOut' = [set |-> TRUE, path |-> getSqlitePath(envPath)]
    /\ UNCHANGED <<connVars, envPath, errVars, harnVars, repVars>>

InitPath ==
    /\ ConnInit({sqliteMigrator})
    /\ envPath \in PathInputs
    /\ pathOut = [set |-> FALSE, path |-> <<>>]
    /\ errSrc = [cause |-> "none", table |-> "", wrapped |-> FALSE]
    /\ errIn = [typ |-> "none", code |-> "", msg |-> <<>>]
    /\ verdict = [set |-> FALSE, val |-> FALSE]
    /\ panicked = FALSE
    /\ HarnIdle
    /\ RepIdle

NextPath == GetSqlitePath

SpecPath == InitPath /\ [][NextPath]_vars

\* ----------------------------------------------- SqliteUniqueViolation

\* sqlite3.ErrConstraint, the engine's result code for a constraint violation
\* of any kind.
ErrConstraint == "SQLITE_CONSTRAINT"

\* "UNIQUE constraint failed", as words.
UniquePhrase == <<"UNIQUE", "constraint", "failed">>

\* Why a statement was rejected: a duplicate of a unique value or of a
\* primary key, a null in a NOT NULL column, a failed CHECK, a syntax error,
\* a locked database, a closed handle.
Causes == {"unique", "primarykey", "notnull", "check", "syntax", "busy",
           "closed"}

\* The causes that are a write duplicating a value declared unique.
UniqueCauses == {"unique", "primarykey"}

Tables == {TableOf(sqliteMigrator[i]) : i \in 1..Len(sqliteMigrator)}

\* The error value a rejected statement on table t comes back with: its
\* dynamic type, its Code and the words of its Error().
EngineError(cause, t) ==
    CASE cause \in UniqueCauses ->
           [typ |-> "sqlite3.Error", code |-> ErrConstraint,
            msg |-> UniquePhrase \o <<":", t>>]
      [] cause = "notnull" ->
           [typ |-> "sqlite3.Error", code |-> ErrConstraint,
            msg |-> <<"NOT", "NULL", "constraint", "failed", ":", t>>]
      [] cause = "check" ->
           [typ |-> "sqlite3.Error", code |-> ErrConstraint,
            msg |-> <<"CHECK", "constraint", "failed", ":", t>>]
      [] cause = "syntax" ->
           [typ |-> "sqlite3.Error", code |-> "SQLITE_ERROR",
            msg |-> <<"near", t, ":", "syntax", "error">>]
      [] cause = "busy" ->
           [typ |-> "sqlite3.Error", code |-> "SQLITE_BUSY",
            msg |-> <<"database", "is", "locked">>]
      [] OTHER ->
           [typ |-> "*errors.errorString", code |-> "",
            msg |-> <<"sql", ":", "database", "is", "closed">>]

\* fmt.Errorf("...: %v", e): the message is kept, the type is not.
Wrapped(e) ==
    [typ |-> "*errors.errorString", code |-> "",
     msg |-> <<"insert", "failed", ":">> \o e.msg]

\* The error value a caller holds for src.
ErrorOf(src) ==
    IF src.wrapped
    THEN Wrapped(EngineError(src.cause, src.table))
    ELSE EngineError(src.cause, src.table)

\* SqliteUniqueViolation(err)
SqliteUniqueViolation(err) ==
    LET match == Contains(err.msg, UniquePhrase)
    IN  IF err.typ = "sqlite3.Error"
        THEN match \/ err.code = ErrConstraint
        ELSE match

\* err.Error() on line 186 is a method call on the interface value: on a nil
\* error it is a nil dereference, a run-time panic.
Panics(err) == err.typ = "nil"

\* A call of SqliteUniqueViolation on the error at hand: it returns a
\* boolean, or panics and returns nothing.
Classify ==
    /\ ~verdict.set
    /\ ~panicked
    /\ IF Panics(errIn)
       THEN /\ panicked' = TRUE
            /\ UNCHANGED verdict
       ELSE /\ verdict' = [set |-> TRUE, val |-> SqliteUniqueViolation(errIn)]
            /\ UNCHANGED panicked
    /\ UNCHANGED <<connVars, pathVars, errSrc, errIn, harnVars, repVars>>

InitErr ==
    /\ ConnInit({sqliteMigrator})
    /\ envPath = <<>>
    /\ pathOut = [set |-> FALSE, path |-> <<>>]
    /\ errSrc \in [cause : Causes, table : Tables, wrapped : BOOLEAN]
    /\ errIn = ErrorOf(errSrc)
    /\ verdict = [set |-> FALSE, val |-> FALSE]
    /\ panicked = FALSE
    /\ HarnIdle
    /\ RepIdle

NextErr == Classify

SpecErr == InitErr /\ [][NextErr]_vars

\* The dynamic types an error handed to SqliteUniqueViolation may have: the
\* engine's sqlite3.Error, a pointer to one, the engine's bare result code
\* (sqlite3.ErrNo is an error too) and an error made by errors.New or
\* fmt.Errorf.
ErrTypes == {"sqlite3.Error", "*sqlite3.Error", "sqlite3.ErrNo",
             "*errors.errorString"}

\* Result codes an error value may carry ("" when its type has none).
ErrCodes == {ErrConstraint, "SQLITE_ERROR", ""}

\* Messages an error value may have: none, the phrase alone or inside a
\* longer message, and near misses of it.
ErrMsgs ==
    { <<>>,
      UniquePhrase,
      <<"insert", ":">> \o UniquePhrase \o <<":", "t">>,
      <<"UNIQUE", "constraint">>,
      <<"unique", "constraint", "failed">>,
      <<"UNIQUE", "failed", "constraint">>,
      <<"constraint", "failed">>,
      <<"database", "is", "locked">> }

\* Every error value of the shapes above, and the nil error.
AnyErrors ==
    {NilError} \cup
    {e \in [typ : ErrTypes, code : ErrCodes, msg : ErrMsgs] :
        e.code # "" => e.typ \in {"sqlite3.Error", "*sqlite3.Error",
                                  "sqlite3.ErrNo"}}

\* SqliteUniqueViolation is handed an error value of any shape.
InitErrAny ==
    /\ ConnInit({sqliteMigrator})
    /\ envPath = <<>>
    /\ pathOut = [set |-> FALSE, path |-> <<>>]
    /\ errSrc = [cause |-> "none", table |-> "", wrapped |-> FALSE]
    /\ errIn \in AnyErrors
    /\ verdict = [set |-> FALSE, val |-> FALSE]
    /\ panicked = FALSE
    /\ HarnIdle
    /\ RepIdle

SpecErrAny == InitErrAny /\ [][NextErr]_vars

\* ------------------------------------------------------ the test harness

\* The Connect call CreateTestSqliteDB makes.
HCall == 1

\* The provider sqliteConnection(log.NewNopLogger(), filepath.Join(dir,
\* "customers.db")) builds, and the file its path names, inside the temp dir.
TestProvider == "s3"
TestFile == "f2"

\* dir, err := ioutil.TempDir("", "customers-sqlite"); a failure ends the
\* test with t.Fatalf.
TempDir ==
    /\ hpc = "start"
    /\ \E ok \in BOOLEAN :
          IF ok
          THEN dir' = "exists" /\ hpc' = "made"
          ELSE dir' = dir /\ hpc' = "fatal"
    /\ UNCHANGED <<closeRet, rows, ins, nIns>>
    /\ UNCHANGED <<connVars, pathVars, errVars, repVars>>

\* sqliteConnection(...).Connect() is called.
HarnessConnect ==
    /\ hpc = "made"
    /\ ConnectEnter(HCall, TestProvider)

\* The Connect the harness called goes on.
HarnessConnectStep ==
    /\ hpc = "made"
    /\ ConnectStep(HCall)

\* Connect has returned: if err != nil { t.Fatalf(...) }, and otherwise
\* return &TestSQLiteDB{db, dir}.
HarnessReturn ==
    /\ hpc = "made"
    /\ pc[HCall] = "done"
    /\ hpc' = IF ret[HCall].err # NoErr THEN "fatal" ELSE "ready"
    /\ UNCHANGED <<dir, closeRet, rows, ins, nIns>>
    /\ UNCHANGED <<connVars, pathVars, errVars, repVars>>

\* Some row of t already held has the values of r in all columns of the
\* unique pair. A NULL is distinct from every value, another NULL included.
Conflicts(t, r) ==
    \E q \in TableRows(t) :
        /\ rows[t][q] > 0
        /\ \A i \in UniqueCols(t) : q[i] = r[i] /\ r[i] # Null

\* The test inserts row r into table t of its database with a plain INSERT.
Insert(t, r) ==
    /\ hpc = "ready"
    /\ dbState[HCall] = "open"
    /\ t \in files[TestFile].tables
    /\ nIns < MaxInserts
    /\ nIns' = nIns + 1
    /\ IF Conflicts(t, r)
       THEN /\ rows' = rows
            /\ ins' = [table |-> t, row |-> r,
                       err |-> IF OnConflict(t) = "ignore"
                               THEN NilError
                               ELSE EngineError("unique", t)]
       ELSE /\ rows' = [rows EXCEPT ![t][r] = @ + 1]
            /\ ins' = [table |-> t, row |-> r, err |-> NilError]
    /\ UNCHANGED <<hpc, dir, closeRet>>
    /\ UNCHANGED <<connVars, pathVars, errVars, repVars>>

\* A Close that goes on to remove the directory whatever r.DB.Close()
\* returned (variant).
AfterDBCloseIgnoringErr(ok) == "removing"

\* if err := r.DB.Close(); err != nil { return err }
AfterDBClose(ok) == IF ok THEN "removing" ELSE "closed"

\* TestSQLiteDB.Close, up to the return of r.DB.Close().
HarnessClose ==
    /\ hpc = "ready"
    /\ dbState' = Closed(HCall)
    /\ \E ok \in BOOLEAN :
          LET e == IF ok THEN NoErr ELSE Err("close", "", "fault")
          IN  /\ hpc' = AfterDBClose(ok)
              /\ closeRet' = [set |-> hpc' = "closed", err |-> e]
    /\ UNCHANGED <<dir, rows, ins, nIns>>
    /\ UNCHANGED <<migrations, prov, version, sqliteVersionLogOnce,
                   versionQueries, logged, files, pc, self, idx, openErr, ret,
                   gate, did, ranStmt, startLedger, migrated, reporters>>
    /\ UNCHANGED <<pathVars, errVars, repVars>>

\* return os.RemoveAll(r.dir): the directory and the database file in it are
\* gone, or the removal fails and its error is returned.
RemoveAll ==
    /\ hpc = "removing"
    /\ hpc' = "closed"
    /\ \E ok \in BOOLEAN :
          IF ok
          THEN /\ dir' = "removed"
               /\ files' = [files EXCEPT ![TestFile] =
                                [hasLedger |-> FALSE, ledger |-> <<>>,
                                 tables |-> {}]]
               /\ rows' = [t \in PairTables |-> NoRows(t)]
               /\ closeRet' = [set |-> TRUE, err |-> NoErr]
          ELSE /\ closeRet' = [set |-> TRUE,
                               err |-> Err("remove", "", "fault")]
               /\ UNCHANGED <<dir, files, rows>>
    /\ UNCHANGED <<ins, nIns>>
    /\ UNCHANGED <<migrations, prov, version, sqliteVersionLogOnce,
                   versionQueries, logged, pc, self, idx, openErr, dbState,
                   ret, gate, did, ranStmt, startLedger, migrated, reporters>>
    /\ UNCHANGED <<pathVars, errVars, repVars>>

\* A test: it builds its database, inserts rows and cleans up.
NextHarness ==
    \/ TempDir
    \/ HarnessConnect
    \/ HarnessConnectStep
    \/ HarnessReturn
    \/ \E t \in PairTables : \E r \in TableRows(t) : Insert(t, r)
    \/ HarnessClose
    \/ RemoveAll

SpecHarness == Init /\ [][NextHarness]_vars

\* ------------------------------------------------- properties of Connect

\* The names in file f's ledger, and whether it holds name n.
Ledger(f) == files[f].ledger
InLedger(f, n) == \E i \in 1..Len(Ledger(f)) : Ledger(f)[i] = n

\* A call is on a provider that holds a stored construction error.
OnFailedProvider(c) == self[c] # "" /\ prov[self[c]].err # NilMsg

\* C1: however Connect calls on non-failed providers interleave, the func
\* guarded by sqliteVersionLogOnce runs exactly once in total: at most one
\* call ever runs it, every other call that passed the gate skipped it and
\* saw the Once done, and as soon as one call is past the gate the count of
\* runs is 1.
C1_GateRunsOnce ==
    /\ versionQueries <= 1
    /\ Cardinality({c \in Calls : gate[c] = "ran"}) <= 1
    /\ Cardinality({c \in Calls : pc[c] = "onceBody"}) <= 1
    /\ \A c \in Calls :
          /\ gate[c] # "none" => versionQueries = 1
          /\ gate[c] = "skipped" => sqliteVersionLogOnce = "done"
          /\ (self[c] # "" /\ ~OnFailedProvider(c)
                /\ pc[c] \notin {"idle", "once", "onceBody"})
             => gate[c] # "none"

\* Two calls on distinct providers in flight together, both past the gate:
\* one ran the func, the other skipped it.
C1_Witness ==
    \E a, b \in Calls :
        /\ a # b /\ self[a] # self[b]
        /\ pc[a] = "open" /\ pc[b] = "open"
        /\ gate[a] = "ran" /\ gate[b] = "skipped"
        /\ versionQueries = 1

\* C2: when Connect calls migrate the same file concurrently, no ledger name
\* is recorded twice, a Migrate fails only if a statement of its own failed
\* in the engine, and a Connect that succeeded left every registered step
\* recorded exactly once.
C2_ConcurrentMigrateSafe ==
    /\ \A f \in Files : \A i \in 1..Len(migrations) :
          Rows(Ledger(f), migrations[i]) <= 1
    /\ \A c \in Calls :
          /\ (pc[c] = "done" /\ ret[c].err.kind \in {"exec", "ledger"})
             => ret[c].err.cause = "fault"
          /\ c \in reporters
             => \A i \in 1..Len(migrations) :
                   Rows(Ledger(FileOf(c)), migrations[i]) = 1

\* C3: a Migrate that begins on a file a previous Migrate completed on runs
\* no statement, leaves the ledger as it found it (same rows, one per
\* registered step) and returns no error.
C3_MigrateIdempotent ==
    \A c \in Calls :
        startLedger[c].seen
        => /\ ~ranStmt[c]
           /\ pc[c] \in {"migCheck", "spawn", "done"}
           /\ Ledger(FileOf(c)) = startLedger[c].ledger
           /\ Len(Ledger(FileOf(c))) = Len(migrations)
           /\ pc[c] = "done" => ret[c] = [db |-> c, err |-> NoErr]

\* A second Migrate on a migrated file has completed and its Connect returned.
C3_Witness ==
    \E a, b \in Calls :
        /\ a # b /\ pc[a] = "done" /\ pc[b] = "done"
        /\ FileOf(a) = FileOf(b)
        /\ ret[a].err = NoErr /\ a \in reporters /\ ~startLedger[a].seen
        /\ startLedger[b].seen /\ b \in reporters

Pos(n) == CHOOSE i \in 1..Len(migrations) : migrations[i] = n

\* C5: Migrate applies steps strictly in registration order (the ledger is
\* always the first rows of the registration). With A registered before B, a
\* Migrate no statement of which fails in the engine succeeds and leaves the
\* whole registration, A and B included, recorded. With B registered before
\* A, every Migrate fails, on B for want of table T unless an earlier
\* statement failed in the engine, and neither B nor any step registered
\* after it is ever recorded.
C5_RegistrationOrder ==
    /\ \A f \in Files :
          Ledger(f) = SubSeq(migrations, 1, Len(Ledger(f)))
    /\ \A c \in Calls :
          (pc[c] = "done" /\ "migrate" \in did[c])
          => IF Pos("A") < Pos("B")
             THEN /\ ret[c].err.cause # "no such table"
                  /\ ret[c].err.cause # "fault"
                     => /\ ret[c] = [db |-> c, err |-> NoErr]
                        /\ Ledger(FileOf(c)) = migrations
             ELSE /\ ret[c].db = c
                  /\ ret[c].err.kind = "exec"
                  /\ ret[c].err.cause # "fault"
                     => ret[c].err = Err("exec", "B", "no such table")
    /\ Pos("B") < Pos("A")
       => \A f \in Files : \A i \in Pos("B")..Len(migrations) :
             ~InLedger(f, migrations[i])

\* With C, B, A registered in that order, a Migrate on a fresh file recorded
\* C, failed on B for want of T, and recorded neither B nor A.
C5_Witness ==
    \E c \in Calls :
        /\ migrations = <<"C", "B", "A">>
        /\ pc[c] = "done"
        /\ ret[c] = [db |-> c, err |-> Err("exec", "B", "no such table")]
        /\ Ledger(FileOf(c)) = <<"C">>
        /\ files[FileOf(c)].tables = {"U"}

\* C6: a metrics reporter exists for a handle only if open, ping and Migrate
\* all succeeded on it (every registered step is in the ledger of its file),
\* and never for a handle whose Connect returned an error.
C6_ReporterOnlyAfterSuccess ==
    \A h \in reporters :
        /\ dbState[h] # "none"
        /\ {"open", "ping", "ping ok", "migrate"} \subseteq did[h]
        /\ \A i \in 1..Len(migrations) : InLedger(FileOf(h), migrations[i])
        /\ pc[h] = "done"
        /\ ret[h] = [db |-> h, err |-> NoErr]

\* A reporter runs for one handle while another Connect on the same file has
\* returned its handle with a migration error.
C6_Witness ==
    \E h \in reporters, c \in Calls :
        /\ pc[c] = "done" /\ ret[c].db = c /\ ret[c].err.kind = "exec"
        /\ c \notin reporters

\* C7: when ping or Migrate fails, the returning step of Connect hands back
\* the opened handle (not nil) with that step's error, and the handle is open.
C7_HandleReturnedOnFailure ==
    [][\A c \in Calls :
          /\ (pc[c] = "ping" /\ pc'[c] = "done")
             => /\ ret'[c] = [db |-> c, err |-> Err("ping", "", "fault")]
                /\ dbState'[c] = "open"
          /\ (pc[c] = "migApply" /\ pc'[c] = "done")
             => /\ ret'[c].db = c
                /\ ret'[c].err.kind \in {"exec", "ledger"}
                /\ ret'[c].err.step = migrations[idx[c]]
                /\ dbState'[c] = "open"]_vars

\* Connect has returned an open handle with a ping error, and another with a
\* migration error.
C7_Witness ==
    \E a, b \in Calls :
        /\ pc[a] = "done" /\ ret[a].db = a /\ ret[a].err.kind = "ping"
        /\ dbState[a] = "open"
        /\ pc[b] = "done" /\ ret[b].db = b /\ ret[b].err.kind = "exec"
        /\ dbState[b] = "open"

\* C8: a Connect on a provider with a stored error has returned a nil handle
\* and the error wrapping the stored one, without touching the gate, opening,
\* pinging, migrating or starting a reporter; the call changes nothing but
\* its own result, so repeating it gives the same result.
C8_StoredErrorReturned ==
    /\ [](\A c \in Calls :
            OnFailedProvider(c)
            => /\ pc[c] = "done"
               /\ ret[c] = [db |-> NilDB,
                            err |-> Err("sqlite had error", "",
                                        prov[self[c]].err)]
               /\ ret[c].err.cause # NilMsg
               /\ did[c] = {} /\ gate[c] = "none" /\ ~ranStmt[c]
               /\ dbState[c] = "none" /\ c \notin reporters)
    /\ [][\A c \in Calls :
            (pc[c] = "idle" /\ self'[c] # "" /\ prov[self'[c]].err # NilMsg)
            => UNCHANGED <<migrations, prov, version, sqliteVersionLogOnce,
                           versionQueries, logged, files, idx, openErr,
                           dbState, gate, did, ranStmt, startLedger, migrated,
                           reporters>>]_vars

\* Two calls on the same failed provider have both returned.
C8_Witness ==
    \E a, b \in Calls :
        /\ a # b /\ self[a] = self[b]
        /\ OnFailedProvider(a)
        /\ pc[a] = "done" /\ pc[b] = "done"
        /\ ret[a] = ret[b] /\ ret[a].db = NilDB


\* -------------------------------------------- properties of getSqlitePath

\* Two dots in a row somewhere in s.
HasTraversal(s) ==
    \E i \in 1..(Len(s) - 1) : s[i] = "." /\ s[i + 1] = "."

\* C9: getSqlitePath returns "customers.db" when SQLITE_DB_PATH is empty or
\* contains "..", and the value unchanged otherwise; its result is never
\* empty and never contains "..".
C9_PathResolved ==
    pathOut.set
    => /\ pathOut.path = IF envPath = <<>> \/ HasTraversal(envPath)
                         THEN DefaultPath
                         ELSE envPath
       /\ pathOut.path # <<>>
       /\ ~HasTraversal(pathOut.path)

\* A value with ".." after its first character was replaced by the default.
C9_Witness ==
    /\ pathOut.set
    /\ envPath = <<"a", "/", ".", ".">>
    /\ pathOut.path = DefaultPath

\* ------------------------------------ properties of SqliteUniqueViolation

\* C10: SqliteUniqueViolation returns true for every error that comes from a
\* write duplicating a value declared unique, and false for every other
\* error.
C10_ClassifiesUniqueOnly ==
    verdict.set => (verdict.val <=> errSrc.cause \in UniqueCauses)

\* Rows q and r of t carry the same values in the columns of the unique pair.
SamePair(t, q, r) == \A i \in UniqueCols(t) : q[i] = r[i]

\* Table t holds two rows with the same pair.
HoldsDuplicate(t) ==
    \E q, r \in TableRows(t) :
        /\ SamePair(t, q, r)
        /\ \/ q # r /\ rows[t][q] > 0 /\ rows[t][r] > 0
           \/ q = r /\ rows[t][q] > 1

\* Table t holds a row with the pair of r.
HoldsPairOf(t, r) ==
    \E q \in TableRows(t) : rows[t][q] > 0 /\ SamePair(t, q, r)

\* C11: in the migrated database of a test, whatever rows are inserted,
\* neither customer_metadata nor disclaimer_acceptances ever holds two rows
\* with the same pair; an insert into customer_metadata of a pair the table
\* holds adds nothing and fails with an error SqliteUniqueViolation accepts;
\* an insert into disclaimer_acceptances of a pair the table holds adds
\* nothing and returns no error.
C11_PairsStayUnique ==
    /\ [](\A t \in PairTables : ~HoldsDuplicate(t))
    /\ [][nIns' = nIns + 1
          => LET t == ins'.table
                 r == ins'.row
             IN  HoldsPairOf(t, r)
                 => /\ rows' = rows
                    /\ IF t = "customer_metadata"
                       THEN /\ ins'.err # NilError
                            /\ SqliteUniqueViolation(ins'.err)
                       ELSE ins'.err = NilError]_vars

\* C12: TestSQLiteDB.Close closes the handle first and removes the directory
\* only after the close succeeded; a Close that returned nil left the handle
\* closed and nothing of the directory or the database in it; a close of the
\* handle that fails ends Close at once with the close error and the
\* directory still there. (A removal that fails is returned as Close's
\* error.)
C12_CloseThenRemove ==
    /\ [](/\ closeRet.set => hpc = "closed"
          /\ (closeRet.set /\ closeRet.err = NoErr)
             => /\ dir = "removed"
                /\ dbState[HCall] = "closed"
                /\ files[TestFile].tables = {}
                /\ files[TestFile].ledger = <<>>
                /\ rows = [t \in PairTables |-> NoRows(t)]
          /\ (closeRet.set /\ closeRet.err.kind = "close")
             => dir = "exists"
          /\ (closeRet.set /\ closeRet.err # NoErr)
             => closeRet.err.kind \in {"close", "remove"} /\ dir = "exists"
          /\ dir = "removed" => closeRet.set /\ closeRet.err = NoErr)
    /\ [][/\ dir' # dir /\ dir = "exists"
             => /\ dir' = "removed"
                /\ hpc = "removing"
                /\ dbState[HCall] = "closed"
                /\ closeRet.err = NoErr
          /\ (hpc = "ready" /\ hpc' = "closed")
             => /\ closeRet' = [set |-> TRUE,
                                err |-> Err("close", "", "fault")]
                /\ dir' = "exists"
          /\ (hpc = "ready" /\ hpc' = "removing")
             => dbState'[HCall] = "closed" /\ dir' = "exists"]_vars

\* A test that inserted rows called Close, which returned nil: the handle is
\* closed and the directory gone.
C12_Witness ==
    /\ closeRet = [set |-> TRUE, err |-> NoErr]
    /\ nIns > 0
    /\ dir = "removed"
    /\ dbState[HCall] = "closed"

\* C19: when CreateTestSqliteDB ends in t.Fatalf, the temp dir it created is
\* gone and the handle its Connect opened is not left open.
C19_CleanupOnFailure ==
    hpc = "fatal" => dir # "exists" /\ dbState[HCall] # "open"

\* The place of a position of Connect in its control flow.
Rank(p) ==
    CASE p = "idle" -> 0
      [] p = "once" -> 1
      [] p = "onceBody" -> 2
      [] p = "open" -> 3
      [] p = "ping" -> 4
      [] p = "migrate" -> 5
      [] p = "migCheck" -> 6
      [] p = "migApply" -> 7
      [] p = "spawn" -> 8
      [] OTHER -> 9

\* C13: a Connect on a non-failed provider goes through gate, open, ping,
\* Migrate, reporter start and return in that order and never back (within
\* Migrate, never back to an earlier step of the registration), so each step
\* runs at most once; each step is taken only after the one before it
\* succeeded; a failed open returns a nil handle and nothing was pinged,
\* migrated or started; a failed ping returns before Migrate; a failed
\* Migrate returns before the reporter is started; and the returned error is
\* nil exactly when open, ping and Migrate all succeeded and the reporter was
\* started.
C13_StepsInOrder ==
    /\ [][\A c \in Calls :
            /\ pc'[c] # pc[c]
               => \/ Rank(pc'[c]) > Rank(pc[c])
                  \/ /\ pc[c] = "migApply" /\ pc'[c] = "migCheck"
                     /\ idx'[c] = idx[c] + 1
            /\ idx'[c] >= idx[c]
            /\ did'[c] # did[c]
               => \/ pc[c] = "onceBody" /\ did'[c] = did[c] \cup {"version"}
                  \/ /\ pc[c] = "open" /\ gate[c] # "none"
                     /\ did'[c] = did[c] \cup {"open"}
                     /\ "open" \notin did[c]
                  \/ /\ pc[c] = "ping" /\ dbState[c] = "open"
                     /\ did'[c] \ did[c] \subseteq {"ping", "ping ok"}
                     /\ "ping" \notin did[c]
                  \/ /\ pc[c] = "migrate" /\ "ping ok" \in did[c]
                     /\ did'[c] = did[c] \cup {"migrate"}
                     /\ "migrate" \notin did[c]
            /\ (c \in reporters' /\ c \notin reporters)
               => /\ pc[c] = "spawn" /\ pc'[c] = "done"
                  /\ "migrate" \in did[c]
                  /\ idx[c] = Len(migrations) + 1]_vars
    /\ [](\A c \in Calls :
            (pc[c] = "done" /\ ~OnFailedProvider(c))
            => /\ gate[c] # "none"
               /\ "open" \in did[c]
               /\ ret[c].err.kind = "open"
                  => /\ ret[c].db = NilDB /\ dbState[c] = "none"
                     /\ did[c] \cap {"ping", "migrate"} = {}
                     /\ c \notin reporters
               /\ ret[c].err.kind = "ping"
                  => /\ "ping" \in did[c] /\ "ping ok" \notin did[c]
                     /\ "migrate" \notin did[c] /\ c \notin reporters
               /\ ret[c].err.kind \in {"exec", "ledger"}
                  => /\ "migrate" \in did[c] /\ c \notin reporters
                     /\ idx[c] <= Len(migrations)
               /\ ret[c].err = NoErr
                  <=> /\ dbState[c] # "none"
                      /\ "ping ok" \in did[c]
                      /\ idx[c] = Len(migrations) + 1
                      /\ c \in reporters)

\* Two Connects have returned: one after a failed open with a nil handle,
\* one with a nil error and a reporter.
C13_Witness ==
    \E a, b \in Calls :
        /\ pc[a] = "done" /\ ret[a].err.kind = "open" /\ ret[a].db = NilDB
        /\ pc[b] = "done" /\ ret[b] = [db |-> b, err |-> NoErr]
        /\ b \in reporters /\ gate[b] # "none"

\* The version lines written to all loggers.
RECURSIVE TotalLogged(_)
TotalLogged(S) ==
    IF S = {} THEN 0
    ELSE LET p == CHOOSE x \in S : TRUE
         IN  logged[p] + TotalLogged(S \ {p})

\* C17: the gate is passed before open (so before ping and Migrate); once
\* fired it stays fired whatever the Connect that fired it goes on to do; the
\* guarded func runs, and the version is logged, only in the very first
\* firing, at most once in total, through the logger of the provider whose
\* call fired the gate, and not at all when the version is empty.
C17_GateStaysFired ==
    /\ [](\A c \in Calls :
            /\ "open" \in did[c]
               => gate[c] # "none" /\ sqliteVersionLogOnce = "done"
            /\ (pc[c] = "done" /\ ~OnFailedProvider(c))
               => sqliteVersionLogOnce = "done")
    /\ [](/\ TotalLogged(Providers) <= 1
          /\ version = "" => TotalLogged(Providers) = 0
          /\ \A p \in Providers :
                logged[p] > 0
                => \E c \in Calls : gate[c] = "ran" /\ self[c] = p)
    /\ [][/\ sqliteVersionLogOnce = "done" => sqliteVersionLogOnce' = "done"
          /\ sqliteVersionLogOnce # "new" => sqliteVersionLogOnce' # "new"
          /\ versionQueries' # versionQueries
             => versionQueries = 0 /\ sqliteVersionLogOnce = "running"
          /\ logged' # logged
             => versionQueries = 0 /\ sqliteVersionLogOnce = "running"]_vars

\* The call that fired the gate found no version to log and then failed to
\* open; a later call on another provider skipped the gate and succeeded;
\* nothing was logged.
C17_Witness ==
    \E a, b \in Calls :
        /\ version = "" /\ self[a] # self[b]
        /\ gate[a] = "ran" /\ pc[a] = "done" /\ ret[a].err.kind = "open"
        /\ gate[b] = "skipped" /\ pc[b] = "done" /\ ret[b].err = NoErr
        /\ TotalLogged(Providers) = 0 /\ versionQueries = 1

\* The steps at which earlier Migrate calls on file f failed.
FailedAt(f) ==
    {idx[d] : d \in {x \in Calls : /\ pc[x] = "done"
                                   /\ ret[x].err.kind = "exec"
                                   /\ prov[self[x]].path = f}}

\* The largest member of a non-empty set of numbers.
Max(S) == CHOOSE x \in S : \A y \in S : y <= x

\* C14: with Connect calls made one after another, a Migrate that follows a
\* Migrate that failed at step k on the same file executes no step before k,
\* executes k as its first statement, fails only if one of its own
\* statements fails in the engine, and when it returns nil the ledger holds
\* the whole registration, each step once.
C14_ResumesAtFailedStep ==
    \A c \in Calls :
        /\ (pc[c] = "migApply" /\ FailedAt(FileOf(c)) # {})
           => /\ idx[c] >= Max(FailedAt(FileOf(c)))
              /\ ~ranStmt[c] => idx[c] = Max(FailedAt(FileOf(c)))
        /\ (pc[c] = "done" /\ ret[c].err.kind \in {"exec", "ledger"})
           => ret[c].err = Err("exec", migrations[idx[c]], "fault")
        /\ (pc[c] \in {"spawn", "done"} /\ "migrate" \in did[c]
              /\ idx[c] = Len(migrations) + 1)
           => /\ Ledger(FileOf(c)) = migrations
              /\ \A i \in 1..Len(migrations) :
                    Rows(Ledger(FileOf(c)), migrations[i]) = 1

\* A Migrate failed at a step after the first; the next Migrate on the same
\* file ran statements and completed the registration.
C14_Witness ==
    \E c, d \in Calls :
        /\ c # d /\ pc[c] = "done" /\ pc[d] = "done"
        /\ FileOf(c) = FileOf(d)
        /\ ret[d].err.kind = "exec" /\ idx[d] > 1
        /\ ranStmt[c] /\ ret[c] = [db |-> c, err |-> NoErr]
        /\ Ledger(FileOf(c)) = migrations

\* C15: the reporters are exactly the handles whose Connect returned a nil
\* error, one per such handle; no step ever removes one; closing a returned
\* handle is possible whatever its reporter is doing and leaves the reporter
\* as it was; and a reporter, of an open or of a closed handle, can always go
\* on: take the next tick when it waits, set the next gauge when it is in a
\* tick.
C15_ReportersNeverStop ==
    /\ [](reporters = {c \in Calls : pc[c] = "done" /\ ret[c].err = NoErr
                                                   /\ ret[c].db = c})
    /\ [](\A c \in Calls :
            /\ (pc[c] = "done" /\ ret[c].db = c /\ dbState[c] = "open")
               => ENABLED CloseHandle(c)
            /\ c \in reporters
               => \/ rpc[c] = "wait" /\ nTicks = MaxTicks
                  \/ ENABLED (Tick(c) \/ SetIdle(c) \/ SetInuse(c)
                                \/ SetOpen(c)))
    /\ [][/\ reporters \subseteq reporters'
          /\ \A c \in Calls :
                (dbState[c] = "open" /\ dbState'[c] = "closed")
                => reporters' = reporters /\ rpc' = rpc]_vars

\* The reporter of a handle its caller closed has read the stats of the
\* closed handle in a later tick.
C15_Witness ==
    \E c \in reporters :
        /\ dbState[c] = "closed"
        /\ snap[c] = <<c, nTicks, "closed">>
        /\ ret[c] = [db |-> c, err |-> NoErr]

\* C18: whenever no tick is under way, the three values of the gauge are
\* those of one stats reading, the one of the latest tick.
C18_GaugeFromOneSnapshot ==
    (nTicks > 0 /\ \A c \in Calls : rpc[c] = "wait")
    => \A l \in Labels : gauge[l] = lastSnap

\* C16: SqliteUniqueViolation never panics, whatever error value it is
\* handed, the nil error included; and when it returns true the message
\* holds the phrase "UNIQUE constraint failed" or the value is the engine's
\* structured error with the constraint code.
C16_Total ==
    /\ ~panicked
    /\ (verdict.set /\ verdict.val)
       => \/ Contains(errIn.msg, UniquePhrase)
          \/ (errIn.typ = "sqlite3.Error" /\ errIn.code = ErrConstraint)

====
